---- MODULE Spec2Model ----
(***************************************************************************)
(* Model of the transaction engine (TransactionService), the error         *)
(* classifier (ErrorHandlerService) and the pool / token caches            *)
(* (RaydiumService, TokenService) of the ray-tracer repository.            *)
(***************************************************************************)
EXTENDS Integers, Sequences, FiniteSets, TLC

(***************************************************************************)
(* Bounds of the model.                                                    *)
(***************************************************************************)
\* largest options.maxRetries a caller passes (the smallest is -1)
MaxOptRetries == 3
\* largest env.maxRetries (MAX_RETRIES is validated to lie in 1..10)
MaxEnvRetries == 2
\* concurrent getPoolInfo calls
MaxCallers == 2
\* clock steps of half a cache lifetime each
MaxTicks == 3
\* the attempt numbers calculateRetryDelay is applied to
MaxDelayAttempt == 6
\* the blocks a blockhash stays valid for, on the model's scale
ValidityWindow == 2
\* the block heights the ledger runs through
MaxHeight == 6
\* the updates the monitor loop runs through
MaxUpdates == 3
\* the maxRetries arguments retry and withRetry are called with
MaxHelperRetries == 3
\* the largest amount assessed, in tenths of a SOL
MaxAmount == 12

(***************************************************************************)
(* Strings: String.prototype.includes and toLowerCase.                     *)
(***************************************************************************)
Includes(message, pattern) ==
  \E i \in 1..(Len(message) - Len(pattern) + 1) :
     SubSeq(message, i, i + Len(pattern) - 1) = pattern

LowerChar(c) ==
  CASE c = "A" -> "a" [] c = "B" -> "b" [] c = "C" -> "c" [] c = "D" -> "d"
    [] c = "E" -> "e" [] c = "F" -> "f" [] c = "G" -> "g" [] c = "H" -> "h"
    [] c = "I" -> "i" [] c = "J" -> "j" [] c = "K" -> "k" [] c = "L" -> "l"
    [] c = "M" -> "m" [] c = "N" -> "n" [] c = "O" -> "o" [] c = "P" -> "p"
    [] c = "Q" -> "q" [] c = "R" -> "r" [] c = "S" -> "s" [] c = "T" -> "t"
    [] c = "U" -> "u" [] c = "V" -> "v" [] c = "W" -> "w" [] c = "X" -> "x"
    [] c = "Y" -> "y" [] c = "Z" -> "z" [] OTHER -> c

RECURSIVE ToLowerCase(_)
ToLowerCase(s) ==
  IF Len(s) = 0 THEN ""
  ELSE LowerChar(SubSeq(s, 1, 1)) \o ToLowerCase(SubSeq(s, 2, Len(s)))

(***************************************************************************)
(* ErrorHandlerService: categories, severity, retryability.                *)
(***************************************************************************)
\* mutant: every pattern of the group has to occur
matchesPattern_Every(message, patterns) == \A p \in patterns : Includes(message, p)

matchesPattern(message, patterns) == \E p \in patterns : Includes(message, p)

\* mutant: the transaction group is tested before the RPC group
categorizeError_TransactionBeforeRpc(errorMessage) ==
  LET lowerMessage == ToLowerCase(errorMessage) IN
  IF matchesPattern(lowerMessage, {"network", "timeout", "connection", "econnreset",
       "enotfound", "fetch", "429", "rate limit", "service unavailable"})
    THEN "NETWORK"
  ELSE IF matchesPattern(lowerMessage, {"transaction", "instruction",
       "simulation failed", "compute", "program error", "account in use",
       "blockhash expired"})
    THEN "TRANSACTION"
  ELSE IF matchesPattern(lowerMessage, {"rpc", "node", "endpoint", "blockhash",
       "slot", "commitment"})
    THEN "RPC"
  ELSE IF matchesPattern(lowerMessage, {"insufficient funds", "balance",
       "account not found", "private key", "keypair", "signature", "unauthorized"})
    THEN "WALLET"
  ELSE IF matchesPattern(lowerMessage, {"slippage", "price", "tolerance", "minimum",
       "maximum", "amount"})
    THEN "SLIPPAGE"
  ELSE IF matchesPattern(lowerMessage, {"liquidity", "pool", "reserves", "lp token",
       "swap", "amm"})
    THEN "LIQUIDITY"
  ELSE IF matchesPattern(lowerMessage, {"raydium", "pool info", "pool keys", "market",
       "openbook"})
    THEN "RAYDIUM"
  ELSE IF matchesPattern(lowerMessage, {"token", "mint", "decimals", "spl",
       "associated token account"})
    THEN "TOKEN"
  ELSE IF matchesPattern(lowerMessage, {"invalid", "validation", "format", "required",
       "missing", "expected"})
    THEN "VALIDATION"
  ELSE IF matchesPattern(lowerMessage, {"environment", "config", "api key", "url",
       "setting"})
    THEN "CONFIGURATION"
  ELSE "UNKNOWN"

categorizeError(errorMessage) ==
  LET lowerMessage == ToLowerCase(errorMessage) IN
  IF matchesPattern(lowerMessage, {"network", "timeout", "connection", "econnreset",
       "enotfound", "fetch", "429", "rate limit", "service unavailable"})
    THEN "NETWORK"
  ELSE IF matchesPattern(lowerMessage, {"rpc", "node", "endpoint", "blockhash",
       "slot", "commitment"})
    THEN "RPC"
  ELSE IF matchesPattern(lowerMessage, {"insufficient funds", "balance",
       "account not found", "private key", "keypair", "signature", "unauthorized"})
    THEN "WALLET"
  ELSE IF matchesPattern(lowerMessage, {"transaction", "instruction",
       "simulation failed", "compute", "program error", "account in use",
       "blockhash expired"})
    THEN "TRANSACTION"
  ELSE IF matchesPattern(lowerMessage, {"slippage", "price", "tolerance", "minimum",
       "maximum", "amount"})
    THEN "SLIPPAGE"
  ELSE IF matchesPattern(lowerMessage, {"liquidity", "pool", "reserves", "lp token",
       "swap", "amm"})
    THEN "LIQUIDITY"
  ELSE IF matchesPattern(lowerMessage, {"raydium", "pool info", "pool keys", "market",
       "openbook"})
    THEN "RAYDIUM"
  ELSE IF matchesPattern(lowerMessage, {"token", "mint", "decimals", "spl",
       "associated token account"})
    THEN "TOKEN"
  ELSE IF matchesPattern(lowerMessage, {"invalid", "validation", "format", "required",
       "missing", "expected"})
    THEN "VALIDATION"
  ELSE IF matchesPattern(lowerMessage, {"environment", "config", "api key", "url",
       "setting"})
    THEN "CONFIGURATION"
  ELSE "UNKNOWN"

determineSeverity(category, message) ==
  LET lowerMessage == ToLowerCase(message) IN
  IF category = "CONFIGURATION" \/ Includes(lowerMessage, "private key")
       \/ Includes(lowerMessage, "critical")
    THEN "CRITICAL"
  ELSE IF (category = "WALLET" /\ Includes(lowerMessage, "insufficient"))
       \/ (category = "TRANSACTION" /\ Includes(lowerMessage, "failed"))
       \/ Includes(lowerMessage, "unauthorized")
    THEN "HIGH"
  ELSE IF category \in {"SLIPPAGE", "LIQUIDITY", "RPC"}
    THEN "MEDIUM"
  ELSE "LOW"

getErrorInfo(category, message) ==
  LET lowerMessage == ToLowerCase(message)
      info(sev, retry) == [category |-> category, severity |-> sev,
                           retryable |-> retry, technicalDetails |-> message]
  IN
  CASE category = "NETWORK" -> info(determineSeverity(category, message), TRUE)
    [] category = "RPC" -> info(determineSeverity(category, message), TRUE)
    [] category = "WALLET" ->
         IF Includes(lowerMessage, "insufficient")
           THEN info("HIGH", FALSE)
           ELSE info(determineSeverity(category, message), FALSE)
    [] category = "SLIPPAGE" -> info("MEDIUM", TRUE)
    [] category = "TRANSACTION" ->
         IF Includes(lowerMessage, "simulation")
           THEN info("HIGH", TRUE)
           ELSE info(determineSeverity(category, message), TRUE)
    [] category = "LIQUIDITY" -> info("MEDIUM", TRUE)
    [] category = "RAYDIUM" -> info("MEDIUM", TRUE)
    [] category = "TOKEN" -> info("MEDIUM", TRUE)
    [] category = "VALIDATION" -> info("LOW", FALSE)
    [] category = "CONFIGURATION" -> info("CRITICAL", FALSE)
    [] OTHER -> [category |-> "UNKNOWN", severity |-> "LOW", retryable |-> TRUE,
                 technicalDetails |-> message]

\* handleError once extractErrorMessage has returned message
handleError(message) == getErrorInfo(categorizeError(message), message)

\* mutant: the slippage scenario is returned as not retryable
handleCommonDefiErrors_SlippageNotRetryable(message) ==
  LET lowerMessage == ToLowerCase(message) IN
  IF Includes(lowerMessage, "insufficient funds") /\ Includes(lowerMessage, "0x1")
    THEN [category |-> "WALLET", severity |-> "HIGH", retryable |-> FALSE,
          technicalDetails |-> message]
  ELSE IF Includes(lowerMessage, "slippage tolerance exceeded")
    THEN [category |-> "SLIPPAGE", severity |-> "MEDIUM", retryable |-> FALSE,
          technicalDetails |-> message]
  ELSE IF Includes(lowerMessage, "pool not found") \/ Includes(lowerMessage, "invalid pool")
    THEN [category |-> "RAYDIUM", severity |-> "HIGH", retryable |-> FALSE,
          technicalDetails |-> message]
  ELSE handleError(message)

\* handleCommonDefiErrors once extractErrorMessage has returned message
handleCommonDefiErrors(message) ==
  LET lowerMessage == ToLowerCase(message) IN
  IF Includes(lowerMessage, "insufficient funds") /\ Includes(lowerMessage, "0x1")
    THEN [category |-> "WALLET", severity |-> "HIGH", retryable |-> FALSE,
          technicalDetails |-> message]
  ELSE IF Includes(lowerMessage, "slippage tolerance exceeded")
    THEN [category |-> "SLIPPAGE", severity |-> "MEDIUM", retryable |-> TRUE,
          technicalDetails |-> message]
  ELSE IF Includes(lowerMessage, "pool not found") \/ Includes(lowerMessage, "invalid pool")
    THEN [category |-> "RAYDIUM", severity |-> "HIGH", retryable |-> FALSE,
          technicalDetails |-> message]
  ELSE handleError(message)

\* a value passed as error: a string, an Error, null, undefined, a number, or
\* an object with any of InstructionError ([index, {Custom: n}]), code,
\* message, cause.message and a property that refers to the object itself;
\* "" stands for a property that is absent
ErrorValue(shape, text, instrIndex, instrCustom, code, cause, self) ==
  [shape |-> shape, text |-> text, instrIndex |-> instrIndex,
   instrCustom |-> instrCustom, code |-> code, cause |-> cause, self |-> self]

\* JSON.stringify(error.InstructionError)
StringifyInstructionError(error) ==
  "[" \o error.instrIndex \o ",{\"Custom\":" \o error.instrCustom \o "}]"

\* JSON.stringify(error) of an object: a TypeError on a circular structure
StringifyObject(error) ==
  IF error.self THEN [threw |-> TRUE, message |-> ""]
  ELSE [threw |-> FALSE,
        message |-> "{"
          \o (IF error.code # "" THEN "\"code\":" \o error.code ELSE "")
          \o (IF error.code # "" /\ error.text # "" THEN "," ELSE "")
          \o (IF error.text # "" THEN "\"message\":\"" \o error.text \o "\"" ELSE "")
          \o "}"]

\* code is a number: 0 is falsy
Truthy(code) == code # "" /\ code # "0"

extractErrorMessage(error) ==
  IF error.shape = "string" THEN [threw |-> FALSE, message |-> error.text]
  ELSE IF error.shape = "Error" THEN [threw |-> FALSE, message |-> error.text]
  ELSE IF error.shape = "object" THEN
    IF error.instrIndex # ""
      THEN [threw |-> FALSE,
            message |-> "Instruction error: " \o StringifyInstructionError(error)]
    ELSE IF Truthy(error.code) /\ error.text # ""
      THEN [threw |-> FALSE,
            message |-> "RPC Error " \o error.code \o ": " \o error.text]
    ELSE IF error.cause # ""
      THEN [threw |-> FALSE, message |-> error.cause]
    ELSE StringifyObject(error)
  ELSE [threw |-> FALSE, message |-> "Unknown error occurred"]

\* mutant: the severity is not looked at
shouldRetry_IgnoresSeverity(errorInfo, attemptNo, maxRetriesArg) ==
  IF attemptNo >= maxRetriesArg THEN FALSE
  ELSE IF ~errorInfo.retryable THEN FALSE
  ELSE IF errorInfo.category = "VALIDATION" THEN FALSE
  ELSE TRUE

shouldRetry(errorInfo, attemptNo, maxRetriesArg) ==
  IF attemptNo >= maxRetriesArg THEN FALSE
  ELSE IF ~errorInfo.retryable THEN FALSE
  ELSE IF errorInfo.severity = "CRITICAL" THEN FALSE
  ELSE IF errorInfo.category = "VALIDATION" THEN FALSE
  ELSE TRUE

(***************************************************************************)
(* State.                                                                  *)
(***************************************************************************)
VARIABLES
  options,        \* the options argument of sendAndConfirmTransaction
  envMaxRetries,  \* env.maxRetries
  pc,             \* where the call stands: idle, simulate, send, confirm, sleep, done
  attempt,        \* the loop counter
  maxRetries,     \* the local maxRetries
  lastError,      \* the local lastError
  result,         \* the TransactionResult returned
  attempts,       \* history: one record per loop iteration that ended
  simCalls,       \* history: connection.simulateTransaction calls issued
  simFailures,    \* history: simulations that threw or reported value.err
  sendCalls,      \* history: send calls issued
  confirmCalls,   \* history: confirmTransaction calls issued
  delaysStarted,  \* history: sleep(delay) calls issued
  delaysDone,     \* history: sleep(delay) calls that resolved
  pending,        \* history: the awaited calls not yet settled
  cancel,         \* history: the caller's request to cancel, and when it came
  revision,       \* which RaydiumService runs: "rpc" (direct RPC) or "sdk"
  now,            \* Date.now()
  poolCache,      \* poolDataCache {data, timestamp} / poolCache and lastCacheUpdate
  tokenCache,     \* TokenService.tokenCache: the mints it holds
  calls,          \* the getPoolInfo calls, one per caller
  loaderCalls,    \* history: pool fetches started
  tokenLoads,     \* history: connection.getParsedAccountInfo calls issued
  clearedKeys,    \* history: mints removed by clearCache and not stored since
  delayCall,      \* one calculateRetryDelay call: its inputs and what it returned
  classifyCall,   \* one handleError / handleCommonDefiErrors call and its outcome
  wait,           \* one confirmTransaction call and the ledger it waits on
  monitor,        \* the monitor command: its loop, its timers and what it logged
  retryCall,      \* one helpers.retry / RaydiumService.withRetry call
  riskCall        \* one ValidationService.assessOperationRisk call

engineVars == <<options, envMaxRetries, pc, attempt, maxRetries, lastError, result,
                attempts, simCalls, simFailures, sendCalls, confirmCalls,
                delaysStarted, delaysDone, pending, cancel>>

cacheVars == <<revision, now, poolCache, tokenCache, calls, loaderCalls, tokenLoads,
               clearedKeys>>

unitVars == <<delayCall, classifyCall, wait, monitor, retryCall, riskCall>>

vars == <<engineVars, cacheVars, unitVars>>

(***************************************************************************)
(* TransactionService: what the ledger client may answer.                  *)
(***************************************************************************)
\* the signature of the one signed transaction handed to the call
Signature == "sig"

NoErr == [shape |-> "none", index |-> "", text |-> ""]

\* result.value.err of a simulation: a unit error, an instruction error
SimErrs == {[shape |-> "string", index |-> "", text |-> "SignatureFailure"],
            [shape |-> "InstructionCustom", index |-> "0", text |-> "1"]}

SimReplies == {[kind |-> "value", err |-> NoErr, thrown |-> ""]}
         \cup {[kind |-> "value", err |-> e, thrown |-> ""] : e \in SimErrs}
         \cup {[kind |-> "throw", err |-> NoErr, thrown |-> "fetch failed"]}

\* connection.sendTransaction / sendRawTransaction: a signature or a thrown Error
SendReplies == {[kind |-> "value", thrown |-> ""],
                [kind |-> "throw", thrown |-> "fetch failed"],
                [kind |-> "throw", thrown |->
                   "failed to send transaction: Transaction signature verification failure"]}

\* connection.confirmTransaction: value.err null, value.err set, or a throw
\* (block height exceeded, or a transport failure)
ConfirmReplies == {"confirmed", "landedFailed", "expired", "transport"}

parseTransactionError(error) ==
  CASE error.shape = "string" -> error.text
    [] error.shape = "InstructionCustom" ->
         "Instruction " \o error.index \o " failed with custom error " \o error.text
    [] error.shape = "InstructionObject" ->
         "Instruction " \o error.index \o " failed: " \o error.text
    [] error.shape = "InstructionOther" ->
         "Instruction " \o error.index \o " failed: " \o error.text
    [] error.shape = "object" -> "Transaction failed: " \o error.text
    [] OTHER -> "Unknown transaction error: " \o error.text

\* connection.simulateTransaction threw, or answered with value.err set
SimulationFailed(reply) == reply.kind = "throw" \/ reply.err.shape # "none"

\* mutant: a thrown simulation is taken for a successful one
simulateTransaction_SwallowsThrow(reply) ==
  IF reply.kind = "value" /\ reply.err.shape # "none"
    THEN [success |-> FALSE, error |-> parseTransactionError(reply.err)]
  ELSE [success |-> TRUE, error |-> ""]

\* simulateTransaction never throws: {success, error}
simulateTransaction(reply) ==
  IF reply.kind = "throw"
    THEN [success |-> FALSE, error |-> "Simulation failed: Error: " \o reply.thrown]
  ELSE IF reply.err.shape # "none"
    THEN [success |-> FALSE, error |-> parseTransactionError(reply.err)]
  ELSE [success |-> TRUE, error |-> ""]

\* mutant: the negation of value.err dropped
confirmTransaction_Inverted(reply) == reply = "landedFailed"

\* confirmTransaction: !confirmation.value.err, and false when anything throws
confirmTransaction(reply) ==
  IF reply \in {"expired", "transport"} THEN FALSE
  ELSE ~(reply = "landedFailed")

NoCancel == [requested |-> FALSE, during |-> "", sims |-> 0, sends |-> 0]

EffectiveMaxRetries(optMaxRetries, envRetries) ==
  IF optMaxRetries # 0 THEN optMaxRetries ELSE envRetries

\* mutant: one iteration more than maxRetries
LoopCondition_OneMore(a, mr) == a <= mr + 1

LoopCondition(a, mr) == a <= mr

\* mutant: a delay is waited after every failed iteration, the last included
ShouldSleep_Always(a, mr) == TRUE

\* mutant: the delay before the last iteration is skipped
ShouldSleep_SkipsLast(a, mr) == a < mr - 1

ShouldSleep(a, mr) == a < mr

\* mutant: the simulation runs whatever skipPreflight says
NeedsSimulation_Always(opts) == TRUE

NeedsSimulation(opts) == ~opts.skipPreflight

\* mutant: the first error caught is the one kept
CaughtError_KeepsFirst(prev, message) ==
  IF prev.isNull THEN [isNull |-> FALSE, message |-> message] ELSE prev

\* lastError = error as Error
CaughtError(prev, message) == [isNull |-> FALSE, message |-> message]

\* mutant: the failure is returned without its error
FailureResult_NoError(mr, err) ==
  [returned |-> TRUE, success |-> FALSE, signature |-> "", error |-> ""]

FailureResult(mr, err) ==
  [returned |-> TRUE, success |-> FALSE, signature |-> "",
   error |-> "Transaction failed after " \o ToString(mr) \o " attempts: "
             \o (IF err.isNull THEN "undefined" ELSE err.message)]

SuccessResult ==
  [returned |-> TRUE, success |-> TRUE, signature |-> Signature, error |-> ""]

NoResult == [returned |-> FALSE, success |-> FALSE, signature |-> "", error |-> ""]

AttemptRecord(i, outcome, stage, rpc, error, delayFor, sims, sends, confirms) ==
  [index |-> i, outcome |-> outcome, stage |-> stage, rpc |-> rpc, error |-> error,
   delayFor |-> delayFor, sims |-> sims, sends |-> sends, confirms |-> confirms]

(***************************************************************************)
(* sendAndConfirmTransaction, one action per await.                        *)
(***************************************************************************)
\* the top of the for loop with counter a: the first await of the iteration,
\* or the return after the loop
EnterLoop(a, mr, err, sims, sends) ==
  /\ attempt' = a
  /\ IF LoopCondition(a, mr)
       THEN /\ result' = result
            /\ IF NeedsSimulation(options)
                 THEN /\ pc' = "simulate"
                      /\ simCalls' = sims + 1
                      /\ sendCalls' = sends
                      /\ pending' = {[attempt |-> a, op |-> "simulate"]}
                 ELSE /\ pc' = "send"
                      /\ simCalls' = sims
                      /\ sendCalls' = sends + 1
                      /\ pending' = {[attempt |-> a, op |-> "send"]}
       ELSE /\ pc' = "done"
            /\ result' = FailureResult(mr, err)
            /\ simCalls' = sims
            /\ sendCalls' = sends
            /\ pending' = {}

\* the catch block of iteration attempt, with the Error caught
Catch(message, stage, rpc) ==
  LET err == CaughtError(lastError, message) IN
  /\ lastError' = err
  /\ IF ShouldSleep(attempt, maxRetries)
       THEN /\ attempts' = Append(attempts,
                 AttemptRecord(attempt, "failed", stage, rpc, message, attempt,
                               simCalls, sendCalls, confirmCalls))
            /\ pc' = "sleep"
            /\ delaysStarted' = delaysStarted + 1
            /\ pending' = {[attempt |-> attempt, op |-> "sleep"]}
            /\ UNCHANGED <<attempt, result, simCalls, sendCalls>>
       ELSE /\ attempts' = Append(attempts,
                 AttemptRecord(attempt, "failed", stage, rpc, message, 0,
                               simCalls, sendCalls, confirmCalls))
            /\ delaysStarted' = delaysStarted
            /\ EnterLoop(attempt + 1, maxRetries, err, simCalls, sendCalls)

Call ==
  /\ pc = "idle"
  /\ maxRetries' = EffectiveMaxRetries(options.maxRetries, envMaxRetries)
  /\ lastError' = [isNull |-> TRUE, message |-> ""]
  /\ EnterLoop(1, maxRetries', lastError', simCalls, sendCalls)
  /\ UNCHANGED <<options, envMaxRetries, attempts, confirmCalls, delaysStarted,
                 delaysDone, simFailures>>
  /\ UNCHANGED <<cancel, cacheVars, unitVars>>

SimulateReturns ==
  /\ pc = "simulate"
  /\ \E reply \in SimReplies :
       LET simulationResult == simulateTransaction(reply) IN
       /\ simFailures' = simFailures + (IF SimulationFailed(reply) THEN 1 ELSE 0)
       /\ IF simulationResult.success
            THEN /\ pc' = "send"
                 /\ sendCalls' = sendCalls + 1
                 /\ pending' = {[attempt |-> attempt, op |-> "send"]}
                 /\ UNCHANGED <<attempt, lastError, result, attempts, simCalls,
                                delaysStarted>>
            ELSE Catch("Simulation failed: " \o simulationResult.error, "simulate", "")
  /\ UNCHANGED <<options, envMaxRetries, maxRetries, confirmCalls, delaysDone>>
  /\ UNCHANGED <<cancel, cacheVars, unitVars>>

SendReturns ==
  /\ pc = "send"
  /\ \E reply \in SendReplies :
       IF reply.kind = "throw"
         THEN /\ Catch(reply.thrown, "send", "")
              /\ UNCHANGED confirmCalls
       ELSE IF options.skipConfirmation
         THEN /\ pc' = "done"
              /\ result' = SuccessResult
              /\ pending' = {}
              /\ attempts' = Append(attempts,
                   AttemptRecord(attempt, "succeeded", "send", "", "", 0,
                                 simCalls, sendCalls, confirmCalls))
              /\ UNCHANGED <<attempt, lastError, simCalls, sendCalls, confirmCalls,
                             delaysStarted>>
         ELSE /\ pc' = "confirm"
              /\ confirmCalls' = confirmCalls + 1
              /\ pending' = {[attempt |-> attempt, op |-> "confirm"]}
              /\ UNCHANGED <<attempt, lastError, result, attempts, simCalls,
                             sendCalls, delaysStarted>>
  /\ UNCHANGED <<options, envMaxRetries, maxRetries, delaysDone, simFailures>>
  /\ UNCHANGED <<cancel, cacheVars, unitVars>>

ConfirmReturns ==
  /\ pc = "confirm"
  /\ \E reply \in ConfirmReplies :
       IF confirmTransaction(reply)
         THEN /\ pc' = "done"
              /\ result' = SuccessResult
              /\ pending' = {}
              /\ attempts' = Append(attempts,
                   AttemptRecord(attempt, "succeeded", "confirm", reply, "", 0,
                                 simCalls, sendCalls, confirmCalls))
              /\ UNCHANGED <<attempt, lastError, simCalls, sendCalls, delaysStarted>>
         ELSE Catch("Transaction failed to confirm within timeout", "confirm", reply)
  /\ UNCHANGED <<options, envMaxRetries, maxRetries, confirmCalls, delaysDone, simFailures>>
  /\ UNCHANGED <<cancel, cacheVars, unitVars>>

SleepDone ==
  /\ pc = "sleep"
  /\ delaysDone' = delaysDone + 1
  /\ EnterLoop(attempt + 1, maxRetries, lastError, simCalls, sendCalls)
  /\ UNCHANGED <<options, envMaxRetries, maxRetries, lastError, attempts,
                 confirmCalls, delaysStarted, simFailures>>
  /\ UNCHANGED <<cancel, cacheVars, unitVars>>

\* the caller asks for the run to be cancelled while it is suspended in an
\* await; sendAndConfirmTransaction takes no signal and reads none
CancelRequested ==
  /\ pc \in {"simulate", "send", "confirm", "sleep"}
  /\ ~cancel.requested
  /\ cancel' = [requested |-> TRUE, during |-> pc, sims |-> simCalls,
                sends |-> sendCalls]
  /\ UNCHANGED <<options, envMaxRetries, pc, attempt, maxRetries, lastError, result,
                 attempts, simCalls, simFailures, sendCalls, confirmCalls,
                 delaysStarted, delaysDone, pending>>
  /\ UNCHANGED <<cacheVars, unitVars>>

EngineInit ==
  /\ options \in [maxRetries : (-1)..MaxOptRetries, skipPreflight : BOOLEAN,
                  skipConfirmation : BOOLEAN]
  /\ envMaxRetries \in 1..MaxEnvRetries
  /\ pc = "idle"
  /\ attempt = 0
  /\ maxRetries = 0
  /\ lastError = [isNull |-> TRUE, message |-> ""]
  /\ result = NoResult
  /\ attempts = <<>>
  /\ simCalls = 0
  /\ simFailures = 0
  /\ sendCalls = 0
  /\ confirmCalls = 0
  /\ delaysStarted = 0
  /\ delaysDone = 0
  /\ pending = {}
  /\ cancel = NoCancel

(***************************************************************************)
(* RaydiumService.getPoolInfo and TokenService: the caches.                *)
(***************************************************************************)
\* CACHE_TTL of the sdk revision
CACHE_TTL == 30000
\* CACHE_DURATION_MS of the rpc revision
CACHE_DURATION_MS == 30000

Callers == 1..MaxCallers

TickMs == CACHE_TTL \div 2

NECK == "NECK"
WSOL == "WSOL"

NoEntry == [has |-> FALSE, value |-> 0, timestamp |-> 0]

IdleCall == [pc |-> "idle", now |-> 0, useCache |-> TRUE, seenHas |-> FALSE,
             seenAge |-> 0, seenValue |-> 0, load |-> 0, ret |-> 0, error |-> "",
             tokenLoad |-> FALSE, afterClear |-> FALSE]

\* mutant: an entry exactly one lifetime old still counts as live
IsLive_Inclusive(entry, t) ==
  /\ entry.has
  /\ (t - entry.timestamp) <= (IF revision = "sdk" THEN CACHE_TTL ELSE CACHE_DURATION_MS)

\* the cache test of getPoolInfo: an entry is there and younger than the lifetime
IsLive(entry, t) ==
  /\ entry.has
  /\ (t - entry.timestamp) < (IF revision = "sdk" THEN CACHE_TTL ELSE CACHE_DURATION_MS)

\* mutant: the useCache argument is ignored
UsesCache_Always(useCache) == TRUE

UsesCache(useCache) == IF revision = "sdk" THEN useCache ELSE TRUE

\* the entry a load that began at time t with result v stores
StoredEntry(v, t) == [has |-> TRUE, value |-> v, timestamp |-> t]

\* TokenService.clearCache
ClearedTokenCache(cache) == {}

\* getPoolInfo up to its first await
GetPoolInfo(c) ==
  /\ calls[c].pc = "idle"
  /\ \E useCache \in (IF revision = "sdk" THEN BOOLEAN ELSE {TRUE}) :
       LET seen == [calls[c] EXCEPT !.now = now, !.useCache = useCache,
                      !.seenHas = poolCache.has,
                      !.seenAge = IF poolCache.has THEN now - poolCache.timestamp ELSE 0,
                      !.seenValue = poolCache.value]
       IN
       IF UsesCache(useCache) /\ IsLive(poolCache, now)
         THEN /\ calls' = [calls EXCEPT ![c] =
                    [seen EXCEPT !.pc = "returned", !.ret = poolCache.value]]
              /\ UNCHANGED loaderCalls
         ELSE /\ calls' = [calls EXCEPT ![c] =
                    [seen EXCEPT !.pc = IF revision = "sdk" THEN "fetchApi" ELSE "fetchRpc",
                                 !.load = loaderCalls + 1]]
              /\ loaderCalls' = loaderCalls + 1
  /\ UNCHANGED <<revision, now, poolCache, tokenCache, tokenLoads, clearedKeys>>
  /\ UNCHANGED <<engineVars, unitVars>>

\* the end of a successful load of call c: the cache is written and the pool
\* info returned
Store(c, cl) ==
  /\ poolCache' = StoredEntry(cl.load, cl.now)
  /\ calls' = [calls EXCEPT ![c] = [cl EXCEPT !.pc = "returned", !.ret = cl.load]]

\* mutant: the entry is written before the outcome of the load is known
Throw_AfterStore(c, cl, message) ==
  /\ calls' = [calls EXCEPT ![c] = [cl EXCEPT !.pc = "failed", !.error = message]]
  /\ poolCache' = [has |-> TRUE, value |-> cl.load, timestamp |-> cl.now]

\* the catch block: the error is wrapped and thrown to the caller
Throw(c, cl, message) ==
  /\ calls' = [calls EXCEPT ![c] = [cl EXCEPT !.pc = "failed", !.error = message]]
  /\ UNCHANGED poolCache

\* rpc revision: fetchFromDirectRPC settles
FetchRpcReturns(c) ==
  /\ calls[c].pc = "fetchRpc"
  /\ \E ok \in BOOLEAN :
       IF ok THEN Store(c, calls[c])
       ELSE Throw(c, calls[c], "Failed to fetch real pool data: Error: Pool account not found")
  /\ UNCHANGED <<revision, now, tokenCache, loaderCalls, tokenLoads, clearedKeys>>
  /\ UNCHANGED <<engineVars, unitVars>>

\* sdk revision: the Promise.all of getTokenInfo(NECK) and getTokenInfo(WSOL) is
\* started; WSOL is the native mint and is stored at once, NECK is read from
\* the token cache or asked of the ledger
TokenStage(c) ==
  IF NECK \in tokenCache
    THEN /\ Store(c, [calls[c] EXCEPT !.afterClear = NECK \in clearedKeys])
         /\ tokenCache' = tokenCache \cup {WSOL}
         /\ clearedKeys' = clearedKeys \ {WSOL}
         /\ UNCHANGED tokenLoads
    ELSE /\ calls' = [calls EXCEPT ![c] =
               [calls[c] EXCEPT !.pc = "tokens", !.tokenLoad = TRUE,
                                !.afterClear = NECK \in clearedKeys]]
         /\ tokenCache' = tokenCache \cup {WSOL}
         /\ clearedKeys' = clearedKeys \ {WSOL}
         /\ tokenLoads' = tokenLoads + 1
         /\ UNCHANGED poolCache

\* sdk revision: raydium.api.fetchPoolById settles (a throw is caught and logged)
FetchApiReturns(c) ==
  /\ calls[c].pc = "fetchApi"
  /\ \E reply \in {"data", "empty", "throw"} :
       IF reply = "data" THEN TokenStage(c)
       ELSE /\ calls' = [calls EXCEPT ![c].pc = "fetchDirect"]
            /\ UNCHANGED <<poolCache, tokenCache, tokenLoads, clearedKeys>>
  /\ UNCHANGED <<revision, now, loaderCalls>>
  /\ UNCHANGED <<engineVars, unitVars>>

\* sdk revision: fetchPoolDataDirect settles (null when the account is missing
\* or the read throws)
FetchDirectReturns(c) ==
  /\ calls[c].pc = "fetchDirect"
  /\ \E reply \in {"data", "null"} :
       IF reply = "data" THEN TokenStage(c)
       ELSE /\ Throw(c, calls[c], "Failed to fetch pool info: Liquidity pool operation failed")
            /\ UNCHANGED <<tokenCache, tokenLoads, clearedKeys>>
  /\ UNCHANGED <<revision, now, loaderCalls>>
  /\ UNCHANGED <<engineVars, unitVars>>

\* sdk revision: connection.getParsedAccountInfo(NECK) settles
TokensReturn(c) ==
  /\ calls[c].pc = "tokens"
  /\ \E ok \in BOOLEAN :
       IF ok
         THEN /\ Store(c, calls[c])
              /\ tokenCache' = tokenCache \cup {NECK}
              /\ clearedKeys' = clearedKeys \ {NECK}
         ELSE /\ Throw(c, calls[c], "Failed to fetch pool info: Token operation failed")
              /\ UNCHANGED <<tokenCache, clearedKeys>>
  /\ UNCHANGED <<revision, now, loaderCalls, tokenLoads>>
  /\ UNCHANGED <<engineVars, unitVars>>

\* TokenService.clearCache
ClearCache ==
  /\ revision = "sdk"
  /\ tokenCache # {}
  /\ tokenCache' = ClearedTokenCache(tokenCache)
  /\ clearedKeys' = clearedKeys \cup tokenCache
  /\ UNCHANGED <<revision, now, poolCache, calls, loaderCalls, tokenLoads>>
  /\ UNCHANGED <<engineVars, unitVars>>

\* time passes
Tick ==
  /\ now < MaxTicks * TickMs
  /\ now' = now + TickMs
  /\ UNCHANGED <<revision, poolCache, tokenCache, calls, loaderCalls, tokenLoads,
                 clearedKeys>>
  /\ UNCHANGED <<engineVars, unitVars>>

CacheInit ==
  /\ revision \in {"rpc", "sdk"}
  /\ now = 0
  /\ poolCache = NoEntry
  /\ tokenCache = {}
  /\ calls = [c \in Callers |-> IdleCall]
  /\ loaderCalls = 0
  /\ tokenLoads = 0
  /\ clearedKeys = {}

CacheNext ==
  \/ \E c \in Callers : GetPoolInfo(c)
  \/ \E c \in Callers : FetchRpcReturns(c)
  \/ \E c \in Callers : FetchApiReturns(c)
  \/ \E c \in Callers : FetchDirectReturns(c)
  \/ \E c \in Callers : TokensReturn(c)
  \/ ClearCache
  \/ Tick

\* no transaction call is made
EngineQuiet ==
  /\ options = [maxRetries |-> 0, skipPreflight |-> FALSE, skipConfirmation |-> FALSE]
  /\ envMaxRetries = 1
  /\ pc = "idle"
  /\ attempt = 0
  /\ maxRetries = 0
  /\ lastError = [isNull |-> TRUE, message |-> ""]
  /\ result = NoResult
  /\ attempts = <<>>
  /\ simCalls = 0
  /\ simFailures = 0
  /\ sendCalls = 0
  /\ confirmCalls = 0
  /\ delaysStarted = 0
  /\ delaysDone = 0
  /\ pending = {}
  /\ cancel = NoCancel

\* no pool read is made
CacheQuiet ==
  /\ revision = "rpc"
  /\ now = 0
  /\ poolCache = NoEntry
  /\ tokenCache = {}
  /\ calls = [c \in Callers |-> IdleCall]
  /\ loaderCalls = 0
  /\ tokenLoads = 0
  /\ clearedKeys = {}

(***************************************************************************)
(* TransactionService.calculateRetryDelay.                                 *)
(***************************************************************************)
\* const maxDelay = 30000
maxDelay == 30000

\* env.retryBaseDelayMs: the least and the greatest value the environment
\* accepts, the default, and one whose third doubling is the cap
BaseDelays == {100, 1000, 7500, 10000}

\* Math.random() * 1000, in whole milliseconds
Jitters == {0, 1, 500, 999}

Min(a, b) == IF a <= b THEN a ELSE b

\* mutant: the cap is not applied
calculateRetryDelay_Uncapped(attemptNo, baseDelay, jitter) ==
  baseDelay * 2 ^ (attemptNo - 1) + jitter

calculateRetryDelay(attemptNo, baseDelay, jitter) ==
  LET exponentialDelay == baseDelay * 2 ^ (attemptNo - 1) IN
  Min(exponentialDelay + jitter, maxDelay)

NoDelayCall == [pc |-> "idle", attempt |-> 0, baseDelay |-> 0, jitter |-> 0, delay |-> 0]

\* one call calculateRetryDelay(attempt) with env.retryBaseDelayMs set
DelayInit ==
  \E a \in 1..MaxDelayAttempt, b \in BaseDelays :
    delayCall = [NoDelayCall EXCEPT !.attempt = a, !.baseDelay = b]

CalculateRetryDelay ==
  /\ delayCall.pc = "idle"
  /\ \E jitter \in Jitters :
       delayCall' = [delayCall EXCEPT
                       !.pc = "done", !.jitter = jitter,
                       !.delay = calculateRetryDelay(delayCall.attempt,
                                                     delayCall.baseDelay, jitter)]
  /\ UNCHANGED <<engineVars, cacheVars, classifyCall, wait, monitor, retryCall, riskCall>>

(***************************************************************************)
(* ErrorHandlerService.handleError and handleCommonDefiErrors, called.     *)
(***************************************************************************)
\* terms the errors of the ledger client, the wallet and the pool are made of
Words == {"timeout", "fetch failed", "Network", "blockhash", "node is behind",
          "insufficient funds", "private key", "unauthorized", "transaction",
          "blockhash expired", "Simulation failed", "slippage",
          "slippage tolerance exceeded", "pool not found", "raydium", "mint",
          "invalid", "config", "critical", "0x1", "oops"}

Messages == Words \cup {a \o " " \o b : a, b \in Words}

PlainObject(text, code, cause, self) == ErrorValue("object", text, "", "", code, cause, self)

ErrorInputs ==
  {ErrorValue("string", m, "", "", "", "", FALSE) : m \in Messages \cup {""}}
    \cup {ErrorValue("Error", m, "", "", "", "", FALSE) : m \in Words \cup {""}}
    \cup {ErrorValue("object", "", "0", "1", "", "", FALSE),
          ErrorValue("object", "", "0", "1", "", "", TRUE)}
    \cup {PlainObject(m, c, "", self) :
            m \in {"", "timeout", "invalid"}, c \in {"", "0", "-32002"}, self \in BOOLEAN}
    \cup {PlainObject("", "", m, self) : m \in {"fetch failed", "oops"}, self \in BOOLEAN}
    \cup {ErrorValue(sh, "", "", "", "", "", FALSE) : sh \in {"null", "undefined", "number"}}

NoInfo == [category |-> "", severity |-> "", retryable |-> FALSE, technicalDetails |-> ""]

NoClassifyCall ==
  [pc |-> "idle", error |-> ErrorValue("undefined", "", "", "", "", "", FALSE),
   via |-> "", raised |-> FALSE, info |-> NoInfo]

ClassifyInit ==
  \E e \in ErrorInputs : classifyCall = [NoClassifyCall EXCEPT !.error = e]

\* errorHandler.handleError(error): the ErrorInfo returned, or the exception
HandleError ==
  /\ classifyCall.pc = "idle"
  /\ LET errorString == extractErrorMessage(classifyCall.error) IN
     classifyCall' = [classifyCall EXCEPT
        !.pc = "done", !.via = "handleError", !.raised = errorString.threw,
        !.info = IF errorString.threw THEN NoInfo ELSE handleError(errorString.message)]
  /\ UNCHANGED <<engineVars, cacheVars, delayCall, wait, monitor, retryCall, riskCall>>

\* errorHandler.handleCommonDefiErrors(error)
HandleCommonDefiErrors ==
  /\ classifyCall.pc = "idle"
  /\ LET message == extractErrorMessage(classifyCall.error) IN
     classifyCall' = [classifyCall EXCEPT
        !.pc = "done", !.via = "handleCommonDefiErrors", !.raised = message.threw,
        !.info = IF message.threw THEN NoInfo
                 ELSE handleCommonDefiErrors(message.message)]
  /\ UNCHANGED <<engineVars, cacheVars, delayCall, wait, monitor, retryCall, riskCall>>

(***************************************************************************)
(* TransactionService.confirmTransaction against the ledger's block height.*)
(***************************************************************************)
NoWait == [pc |-> "idle", height |-> 0, txLastValid |-> 0, lastValid |-> 0,
           landed |-> "no", reply |-> "", returned |-> FALSE]

\* the transaction was built against a blockhash valid through txLastValid
\* and sendTransaction has returned its signature
WaitInit ==
  wait = [NoWait EXCEPT !.pc = "sent", !.txLastValid = ValidityWindow]

\* the ledger produces a block
NewBlock ==
  /\ wait.pc # "idle"
  /\ wait.height < MaxHeight
  /\ wait' = [wait EXCEPT !.height = wait.height + 1]
  /\ UNCHANGED <<engineVars, cacheVars, delayCall, classifyCall, monitor, retryCall, riskCall>>

\* the ledger executes the transaction, while its blockhash is still valid
Land ==
  /\ wait.pc # "idle"
  /\ wait.landed = "no"
  /\ wait.height <= wait.txLastValid
  /\ \E l \in {"ok", "err"} : wait' = [wait EXCEPT !.landed = l]
  /\ UNCHANGED <<engineVars, cacheVars, delayCall, classifyCall, monitor, retryCall, riskCall>>

\* confirmTransaction(signature) is entered: getLatestBlockhash is awaited
ConfirmCalled ==
  /\ wait.pc = "sent"
  /\ wait' = [wait EXCEPT !.pc = "getLatestBlockhash"]
  /\ UNCHANGED <<engineVars, cacheVars, delayCall, classifyCall, monitor, retryCall, riskCall>>

\* getLatestBlockhash answers with the window of the newest block, or throws
GetLatestBlockhashReturns ==
  /\ wait.pc = "getLatestBlockhash"
  /\ \/ wait' = [wait EXCEPT !.pc = "waiting",
                              !.lastValid = wait.height + ValidityWindow]
     \/ wait' = [wait EXCEPT !.pc = "done", !.reply = "transport",
                              !.returned = confirmTransaction("transport")]
  /\ UNCHANGED <<engineVars, cacheVars, delayCall, classifyCall, monitor, retryCall, riskCall>>

\* connection.confirmTransaction resolves: the signature's status arrived
SignatureNotified ==
  /\ wait.pc = "waiting"
  /\ wait.landed # "no"
  /\ LET reply == IF wait.landed = "ok" THEN "confirmed" ELSE "landedFailed" IN
     wait' = [wait EXCEPT !.pc = "done", !.reply = reply,
                          !.returned = confirmTransaction(reply)]
  /\ UNCHANGED <<engineVars, cacheVars, delayCall, classifyCall, monitor, retryCall, riskCall>>

\* connection.confirmTransaction throws: the block height passed the
\* lastValidBlockHeight it was given
BlockheightExceeded ==
  /\ wait.pc = "waiting"
  /\ wait.height > wait.lastValid
  /\ wait' = [wait EXCEPT !.pc = "done", !.reply = "expired",
                          !.returned = confirmTransaction("expired")]
  /\ UNCHANGED <<engineVars, cacheVars, delayCall, classifyCall, monitor, retryCall, riskCall>>

\* connection.confirmTransaction throws a transport error
ConfirmThrows ==
  /\ wait.pc = "waiting"
  /\ wait' = [wait EXCEPT !.pc = "done", !.reply = "transport",
                          !.returned = confirmTransaction("transport")]
  /\ UNCHANGED <<engineVars, cacheVars, delayCall, classifyCall, monitor, retryCall, riskCall>>

(***************************************************************************)
(* monitorCommand: monitorLoop and its timers.                             *)
(***************************************************************************)
\* DEFAULT_CONFIG.MONITOR_INTERVAL_MS
MONITOR_INTERVAL_MS == 5000

NoMonitor == [pc |-> "idle", monitorCount |-> 0, timers |-> <<>>, log |-> <<>>,
              errorsLogged |-> 0, exit |-> ""]

\* mutant: the retry is scheduled at the normal interval
NextDelay_Same(failed) == MONITOR_INTERVAL_MS

\* the delay of the setTimeout that ends an update
NextDelay(failed) ==
  IF failed THEN MONITOR_INTERVAL_MS * 2 ELSE MONITOR_INTERVAL_MS

\* await monitorLoop(): the first update starts
MonitorStart ==
  /\ monitor.pc = "idle"
  /\ monitor' = [monitor EXCEPT !.pc = "updating", !.monitorCount = 1]
  /\ UNCHANGED <<engineVars, cacheVars, delayCall, classifyCall, wait, retryCall, riskCall>>

\* Promise.all settles: getPoolInfo and getLiquidityPosition resolve or
\* throw, getNetworkStatus resolves (it swallows its own failures); the try
\* block ends in setTimeout, and so does the catch block after logging
UpdateSettles ==
  /\ monitor.pc = "updating"
  /\ \E pool \in {"ok", "throw"}, position \in {"position", "null", "throw"},
        network \in {"ok", "swallowed"} :
       LET failed == pool = "throw" \/ position = "throw" IN
       monitor' = [monitor EXCEPT
         !.pc = "waiting",
         !.timers = Append(monitor.timers, NextDelay(failed)),
         !.errorsLogged = monitor.errorsLogged + (IF failed THEN 1 ELSE 0),
         !.log = Append(monitor.log,
                   [update |-> monitor.monitorCount, pool |-> pool,
                    position |-> position, network |-> network,
                    failed |-> failed, delay |-> NextDelay(failed)])]
  /\ UNCHANGED <<engineVars, cacheVars, delayCall, classifyCall, wait, retryCall, riskCall>>

\* a timer runs out: monitorLoop is called again
TimerFires ==
  /\ monitor.pc = "waiting"
  /\ monitor.timers # <<>>
  /\ monitor.monitorCount < MaxUpdates
  /\ monitor' = [monitor EXCEPT !.pc = "updating",
                                !.timers = Tail(monitor.timers),
                                !.monitorCount = monitor.monitorCount + 1]
  /\ UNCHANGED <<engineVars, cacheVars, delayCall, classifyCall, wait, retryCall, riskCall>>

\* Ctrl+C: process.exit(0)
Sigint ==
  /\ monitor.pc \in {"updating", "waiting"}
  /\ monitor' = [monitor EXCEPT !.pc = "exited", !.timers = <<>>, !.exit = "SIGINT"]
  /\ UNCHANGED <<engineVars, cacheVars, delayCall, classifyCall, wait, retryCall, riskCall>>

MonitorInit == monitor = NoMonitor

(***************************************************************************)
(* helpers.retry and RaydiumService.withRetry.                             *)
(***************************************************************************)
NoRetryCall == [helper |-> "", maxRetries |-> 0, baseDelay |-> 0, pc |-> "idle",
                attempt |-> 0, calls |-> 0, outcomes |-> <<>>, delays |-> <<>>,
                lastError |-> "", result |-> "", thrown |-> ""]

\* what one call of the operation may do: resolve, or throw one of two errors
OperationReplies == {"value", "fetch failed", "timeout"}

\* mutant: the loop stops one iteration early
RetryLoopCondition_Exclusive(i, mr) == i < mr

\* for (let attempt = 0; attempt <= maxRetries; attempt++)
RetryLoopCondition(i, mr) == i <= mr

\* if (attempt < maxRetries)
RetryShouldSleep(i, mr) == i < mr

\* baseDelay * 2^attempt in retry, min(1000 * 2^i, 10000) in withRetry
RetryDelay(helper, i, baseDelay) ==
  IF helper = "retry" THEN baseDelay * 2 ^ i ELSE Min(1000 * 2 ^ i, 10000)

\* the top of the loop with counter i: the operation is called, or the loop
\* is over and lastError is thrown
RetryEnterLoop(rc, i) ==
  IF RetryLoopCondition(i, rc.maxRetries)
    THEN [rc EXCEPT !.pc = "operation", !.attempt = i, !.calls = rc.calls + 1]
    ELSE [rc EXCEPT !.pc = "thrown", !.attempt = i, !.thrown = rc.lastError]

RetryInit ==
  \E h \in {"retry", "withRetry"}, mr \in 0..MaxHelperRetries :
    retryCall = [NoRetryCall EXCEPT !.helper = h, !.maxRetries = mr,
                                    !.baseDelay = 1000]

\* retry(operation, maxRetries) / withRetry(operation, maxRetries) is called
RetryCalled ==
  /\ retryCall.pc = "idle"
  /\ retryCall' = RetryEnterLoop(retryCall, 0)
  /\ UNCHANGED <<engineVars, cacheVars, delayCall, classifyCall, wait, monitor, riskCall>>

\* await operation() settles: its value is returned, or its error is caught
OperationSettles ==
  /\ retryCall.pc = "operation"
  /\ \E reply \in OperationReplies :
       LET rc == [retryCall EXCEPT !.outcomes = Append(retryCall.outcomes, reply)] IN
       IF reply = "value"
         THEN retryCall' = [rc EXCEPT !.pc = "returned", !.result = reply]
       ELSE IF RetryShouldSleep(rc.attempt, rc.maxRetries)
         THEN retryCall' = [rc EXCEPT
                !.pc = "sleep", !.lastError = reply,
                !.delays = Append(rc.delays,
                                  RetryDelay(rc.helper, rc.attempt, rc.baseDelay))]
       ELSE retryCall' = RetryEnterLoop([rc EXCEPT !.lastError = reply], rc.attempt + 1)
  /\ UNCHANGED <<engineVars, cacheVars, delayCall, classifyCall, wait, monitor, riskCall>>

\* the delay has elapsed: the next iteration
RetrySleepDone ==
  /\ retryCall.pc = "sleep"
  /\ retryCall' = RetryEnterLoop(retryCall, retryCall.attempt + 1)
  /\ UNCHANGED <<engineVars, cacheVars, delayCall, classifyCall, wait, monitor, riskCall>>

(***************************************************************************)
(* ValidationService.assessOperationRisk.  Amounts are in tenths of a SOL. *)
(***************************************************************************)
\* the amount argument left out
NoAmount == [given |-> FALSE, value |-> 0]

NoRiskCall == [pc |-> "idle", operation |-> "", amount |-> NoAmount,
               testMode |-> FALSE, riskLevel |-> "", factors |-> <<>>,
               recommendations |-> 0]

\* amount > 1.0
LargeAmount == 10

\* amount > 0.1
ModerateAmount == 1

Operations == {"deposit", "withdraw", "monitor"}

\* the optional amount: absent, or a number (negative and zero included)
Amounts == {NoAmount} \cup {[given |-> TRUE, value |-> v] : v \in -1..MaxAmount}

\* if (amount): undefined and 0 are falsy
AmountGiven(amount) == amount.given /\ amount.value # 0

\* the amount-based assessment: [riskLevel, factors, recommendations]
AmountRisk(amount) ==
  IF AmountGiven(amount) /\ amount.value > LargeAmount
    THEN [riskLevel |-> "HIGH", factors |-> <<"Large position size">>,
          recommendations |-> 1]
  ELSE IF AmountGiven(amount) /\ amount.value > ModerateAmount
    THEN [riskLevel |-> "MEDIUM", factors |-> <<"Moderate position size">>,
          recommendations |-> 1]
  ELSE [riskLevel |-> "LOW", factors |-> <<>>, recommendations |-> 0]

\* the switch on the operation: 'monitor' resets the level to LOW
OperationRisk(operation, r) ==
  CASE operation = "deposit" ->
         [r EXCEPT !.factors = @ \o <<"Impermanent loss risk", "Smart contract risk">>,
                   !.recommendations = @ + 3]
    [] operation = "withdraw" ->
         [r EXCEPT !.factors = @ \o <<"Price impact risk", "Timing risk">>,
                   !.recommendations = @ + 2]
    [] operation = "monitor" ->
         [r EXCEPT !.factors = @ \o <<"Educational opportunity">>,
                   !.recommendations = @ + 2,
                   !.riskLevel = "LOW"]

\* the level computed from amount and operation, before the environment's
\* adjustment
ComputedRisk(operation, amount) == OperationRisk(operation, AmountRisk(amount))

\* if (riskLevel === 'LOW') riskLevel = 'MEDIUM';
RaiseLow(level) == IF level = "LOW" THEN "MEDIUM" ELSE level

\* if (riskLevel === 'MEDIUM') riskLevel = 'HIGH';
RaiseMedium(level) == IF level = "MEDIUM" THEN "HIGH" ELSE level

\* the environment-based adjustment: the two ifs run one after the other
EnvironmentRisk(testMode, r) ==
  IF ~testMode
    THEN [r EXCEPT !.factors = Append(@, "Live mainnet operation"),
                   !.riskLevel = RaiseMedium(RaiseLow(@))]
    ELSE r

assessOperationRisk(operation, amount, testMode) ==
  EnvironmentRisk(testMode, ComputedRisk(operation, amount))

RiskInit ==
  \E op \in Operations, a \in Amounts, tm \in BOOLEAN :
    riskCall = [NoRiskCall EXCEPT !.pc = "called", !.operation = op,
                                  !.amount = a, !.testMode = tm]

\* validator.assessOperationRisk(operation, amount) returns
AssessOperationRisk ==
  /\ riskCall.pc = "called"
  /\ LET r == assessOperationRisk(riskCall.operation, riskCall.amount,
                                  riskCall.testMode) IN
       riskCall' = [riskCall EXCEPT !.pc = "returned",
                                    !.riskLevel = r.riskLevel,
                                    !.factors = r.factors,
                                    !.recommendations = r.recommendations]
  /\ UNCHANGED <<engineVars, cacheVars, delayCall, classifyCall, wait, monitor, retryCall>>

DelayQuiet == delayCall = NoDelayCall

ClassifyQuiet == classifyCall = NoClassifyCall

WaitQuiet == wait = NoWait

MonitorQuiet == monitor = NoMonitor

RetryQuiet == retryCall = NoRetryCall

RiskQuiet == riskCall = NoRiskCall

\* no delay is computed, nothing is classified, nothing is waited for
UnitQuiet == DelayQuiet /\ ClassifyQuiet /\ WaitQuiet /\ MonitorQuiet
    /\ RetryQuiet /\ RiskQuiet

EngineNext ==
  \/ Call
  \/ SimulateReturns
  \/ SendReturns
  \/ ConfirmReturns
  \/ SleepDone
  \/ CancelRequested

Init == EngineInit /\ CacheQuiet /\ UnitQuiet

CacheSpecInit == EngineQuiet /\ CacheInit /\ UnitQuiet

DelaySpecInit ==
  EngineQuiet /\ CacheQuiet /\ DelayInit /\ ClassifyQuiet /\ WaitQuiet /\ MonitorQuiet
    /\ RetryQuiet /\ RiskQuiet

ClassifySpecInit ==
  EngineQuiet /\ CacheQuiet /\ DelayQuiet /\ ClassifyInit /\ WaitQuiet /\ MonitorQuiet
    /\ RetryQuiet /\ RiskQuiet

ConfirmSpecInit ==
  EngineQuiet /\ CacheQuiet /\ DelayQuiet /\ ClassifyQuiet /\ WaitInit /\ MonitorQuiet
    /\ RetryQuiet /\ RiskQuiet

MonitorSpecInit ==
  EngineQuiet /\ CacheQuiet /\ DelayQuiet /\ ClassifyQuiet /\ WaitQuiet /\ MonitorInit
    /\ RetryQuiet /\ RiskQuiet

RetrySpecInit ==
  EngineQuiet /\ CacheQuiet /\ DelayQuiet /\ ClassifyQuiet /\ WaitQuiet /\ MonitorQuiet
    /\ RetryInit /\ RiskQuiet

RiskSpecInit ==
  EngineQuiet /\ CacheQuiet /\ DelayQuiet /\ ClassifyQuiet /\ WaitQuiet /\ MonitorQuiet
    /\ RetryQuiet /\ RiskInit

Next == EngineNext

DelayNext == CalculateRetryDelay

ClassifyNext == HandleError \/ HandleCommonDefiErrors

ConfirmNext ==
  \/ NewBlock
  \/ Land
  \/ ConfirmCalled
  \/ GetLatestBlockhashReturns
  \/ SignatureNotified
  \/ BlockheightExceeded
  \/ ConfirmThrows

MonitorNext == MonitorStart \/ UpdateSettles \/ TimerFires \/ Sigint

RiskNext == AssessOperationRisk

RetryNext == RetryCalled \/ OperationSettles \/ RetrySleepDone

\* one sendAndConfirmTransaction call
Spec == Init /\ [][Next]_vars

\* concurrent getPoolInfo calls against one service
CacheSpec == CacheSpecInit /\ [][CacheNext]_vars

\* calculateRetryDelay over attempt numbers, base delays and jitters
DelaySpec == DelaySpecInit /\ [][DelayNext]_vars

\* one classification of one error value, by either entry point
ClassifySpec == ClassifySpecInit /\ [][ClassifyNext]_vars

\* one confirmTransaction call for one submitted transaction
ConfirmSpec == ConfirmSpecInit /\ [][ConfirmNext]_vars

\* the monitor command until it is interrupted
MonitorSpec == MonitorSpecInit /\ [][MonitorNext]_vars

\* one retry / withRetry call around an operation that may fail
RetrySpec == RetrySpecInit /\ [][RetryNext]_vars

\* one assessOperationRisk call
RiskSpec == RiskSpecInit /\ [][RiskNext]_vars

(***************************************************************************)
(* The engine's claims.                                                    *)
(***************************************************************************)
Max(a, b) == IF a >= b THEN a ELSE b

Failed(i) == attempts[i].outcome = "failed"

Retryable(i) == handleError(attempts[i].error).retryable

\* C1 (as claimed): once the confirmation of an attempt reports that the
\* signature landed with an execution error, no further send call is issued
\* in that call and the call ends in failure after that attempt.
C1_NoResubmitAfterLandedFailure ==
  \A i \in 1..Len(attempts) :
    attempts[i].rpc = "landedFailed" =>
      /\ sendCalls = attempts[i].sends
      /\ i = Len(attempts)

\* C2 (as claimed): a call whose attempts all failed with retryable failures
\* has made exactly maxRetries + 1 attempts when it returns failure.
C2_AttemptsAreMaxRetriesPlusOne ==
  (pc = "done" /\ ~result.success /\ \A i \in 1..Len(attempts) : Retryable(i))
    => Len(attempts) = maxRetries + 1

\* C2 (amended): a call whose attempts all failed has made exactly maxRetries
\* attempts, indexed 1..maxRetries (none when maxRetries < 1), when it returns
\* failure, and it returns failure as soon as attempt maxRetries has failed;
\* maxRetries is options.maxRetries || env.maxRetries.
C2_AttemptsAreMaxRetries ==
  /\ pc # "idle" => Len(attempts) <= Max(maxRetries, 0)
  /\ \A i \in 1..Len(attempts) : attempts[i].index = i
  /\ (pc = "done" /\ ~result.success) =>
       /\ Len(attempts) = Max(maxRetries, 0)
       /\ \A i \in 1..Len(attempts) : Failed(i)
  /\ (pc # "idle" /\ Len(attempts) = Max(maxRetries, 0)
        /\ \A i \in 1..Len(attempts) : Failed(i))
       => (pc = "done" /\ result.returned /\ ~result.success)

\* C2 witness: maxRetries = 2, both confirmations expired, failure returned
C2_Witness ==
  /\ pc = "done" /\ ~result.success /\ maxRetries = 2 /\ Len(attempts) = 2
  /\ \A i \in 1..2 : attempts[i].rpc = "expired" /\ Retryable(i)

\* C3 (as claimed): a simulation or submission failure classified as
\* non-retryable ends the call at once: it is the last attempt, no delay is
\* started for it and the call has returned.
C3_NonRetryableEndsCall ==
  \A i \in 1..Len(attempts) :
    (Failed(i) /\ attempts[i].stage \in {"simulate", "send"} /\ ~Retryable(i)) =>
      /\ i = Len(attempts)
      /\ attempts[i].delayFor = 0
      /\ pc = "done"

\* C4: an attempt k whose confirmation reports CONFIRMED is the last one: the
\* call has returned success with the signature, exactly k attempts were made,
\* the k-1 before it failed, and no simulate, send or confirm call is issued
\* or pending after it.
C4_ConfirmedIsTerminalSuccess ==
  \A k \in 1..Len(attempts) :
    attempts[k].rpc = "confirmed" =>
      /\ k = Len(attempts)
      /\ attempts[k].index = k
      /\ attempts[k].outcome = "succeeded"
      /\ \A i \in 1..(k - 1) : Failed(i)
      /\ pc = "done"
      /\ result.returned /\ result.success /\ result.signature = Signature
      /\ pending = {}
      /\ simCalls = attempts[k].sims
      /\ sendCalls = attempts[k].sends
      /\ confirmCalls = attempts[k].confirms

\* C4 witness: maxRetries = 3, the send fails on attempts 1 and 2, attempt 3
\* is confirmed
C4_Witness ==
  /\ maxRetries = 3 /\ pc = "done" /\ result.success /\ Len(attempts) = 3
  /\ attempts[1].stage = "send" /\ Failed(1) /\ Retryable(1)
  /\ attempts[2].stage = "send" /\ Failed(2) /\ Retryable(2)
  /\ attempts[3].rpc = "confirmed"

\* C5 (as claimed): a landed-but-failed confirmation reaches the engine as an
\* outcome distinct from an expiry and from a transport failure: the error the
\* engine holds for the one differs from the error it holds for the others.
C5_LandedFailureIsDistinct ==
  \A i, j \in 1..Len(attempts) :
    (attempts[i].rpc = "landedFailed" /\ attempts[j].rpc \in {"expired", "transport"})
      => attempts[i].error # attempts[j].error

\* C10: attempts are strictly sequential: while a simulate, send or confirm
\* call of attempt i is awaited, the i-1 earlier attempts have all ended, the
\* delay after each of them has been started and has elapsed, and that call
\* is the only one pending; while a delay is awaited nothing else is pending.
C10_AttemptsSequential ==
  /\ pc \in {"simulate", "send", "confirm"} =>
       /\ Len(attempts) = attempt - 1
       /\ delaysDone = attempt - 1
       /\ delaysStarted = delaysDone
       /\ pending = {[attempt |-> attempt, op |-> pc]}
  /\ pc = "sleep" =>
       /\ Len(attempts) = attempt
       /\ delaysStarted = delaysDone + 1
       /\ delaysDone = attempt - 1
       /\ pending = {[attempt |-> attempt, op |-> "sleep"]}
  /\ pc \in {"idle", "done"} => pending = {}

\* C10 witness: the third attempt is in progress after two failures and two delays
C10_Witness ==
  /\ pc = "send" /\ attempt = 3 /\ Len(attempts) = 2 /\ delaysDone = 2
  /\ \A i \in 1..2 : Failed(i)

\* the simulate, send and confirm calls issued up to the end of attempt i
CallsBefore(i) ==
  IF i = 0 THEN [sims |-> 0, sends |-> 0, confirms |-> 0]
  ELSE [sims |-> attempts[i].sims, sends |-> attempts[i].sends,
        confirms |-> attempts[i].confirms]

\* the calls issued inside attempt i
CallsIn(i) ==
  [sims |-> attempts[i].sims - CallsBefore(i - 1).sims,
   sends |-> attempts[i].sends - CallsBefore(i - 1).sends,
   confirms |-> attempts[i].confirms - CallsBefore(i - 1).confirms]

\* the calls issued so far inside the attempt in progress
CallsNow ==
  [sims |-> simCalls - CallsBefore(Len(attempts)).sims,
   sends |-> sendCalls - CallsBefore(Len(attempts)).sends,
   confirms |-> confirmCalls - CallsBefore(Len(attempts)).confirms]

\* C11: inside every attempt the steps run in the order simulate, send,
\* confirm, each at most once: the simulation is called exactly when
\* skipPreflight is off and is then the first step; the send is issued only
\* after the simulation of the same attempt succeeded (or was skipped) and at
\* most once per attempt; the confirmation wait is started only after the
\* send of the same attempt returned a signature, and never with
\* skipConfirmation, where the attempt succeeds right after the send.
C11_StepsInOrder ==
  /\ \A i \in 1..Len(attempts) :
       LET n == CallsIn(i) IN
       /\ n.sims = (IF options.skipPreflight THEN 0 ELSE 1)
       /\ n.sends <= 1 /\ n.confirms <= 1
       /\ attempts[i].stage = "simulate" =>
            (Failed(i) /\ n.sims = 1 /\ n.sends = 0 /\ n.confirms = 0)
       /\ attempts[i].stage = "send" => (n.sends = 1 /\ n.confirms = 0)
       /\ attempts[i].stage = "confirm" => (n.sends = 1 /\ n.confirms = 1)
       /\ n.confirms = 1 => ~options.skipConfirmation
       /\ (attempts[i].outcome = "succeeded" /\ options.skipConfirmation)
            => attempts[i].stage = "send"
       /\ (attempts[i].outcome = "succeeded" /\ ~options.skipConfirmation)
            => attempts[i].stage = "confirm"
  /\ pc = "simulate" =>
       (~options.skipPreflight /\ CallsNow = [sims |-> 1, sends |-> 0, confirms |-> 0])
  /\ pc = "send" =>
       CallsNow = [sims |-> IF options.skipPreflight THEN 0 ELSE 1,
                   sends |-> 1, confirms |-> 0]
  /\ pc = "confirm" =>
       (~options.skipConfirmation
          /\ CallsNow = [sims |-> IF options.skipPreflight THEN 0 ELSE 1,
                         sends |-> 1, confirms |-> 1])
  /\ pc \in {"sleep", "done"} => CallsNow = [sims |-> 0, sends |-> 0, confirms |-> 0]

\* C11 witness: skipPreflight is on, attempt 1 failed in its confirmation
\* wait and the confirmation of attempt 2 is awaited
C11_Witness ==
  /\ options.skipPreflight /\ pc = "confirm" /\ attempt = 2
  /\ Len(attempts) = 1 /\ attempts[1].stage = "confirm"
  /\ simCalls = 0 /\ sendCalls = 2 /\ confirmCalls = 2

\* C12: in every result returned, success implies no error, the signature
\* present and a last attempt that succeeded; failure implies an error is
\* present and no signature.
C12_OutcomeWellFormed ==
  result.returned =>
    /\ pc = "done"
    /\ result.success =>
         /\ result.error = "" /\ result.signature = Signature
         /\ Len(attempts) >= 1
         /\ attempts[Len(attempts)].outcome = "succeeded"
    /\ ~result.success =>
         /\ result.error # "" /\ result.signature = ""
         /\ \A i \in 1..Len(attempts) : Failed(i)

\* C12 witness: a failure returned after two failed attempts
C12_Witness ==
  /\ result.returned /\ ~result.success /\ Len(attempts) = 2
  /\ \A i \in 1..2 : Failed(i)

\* C13: when the loop has run out of attempts, the failure returned carries
\* the error of the last attempt made, whatever the earlier attempts failed
\* with.
C13_FailureCarriesLastError ==
  (pc = "done" /\ ~result.success /\ Len(attempts) >= 1) =>
    /\ lastError = [isNull |-> FALSE, message |-> attempts[Len(attempts)].error]
    /\ result.error = "Transaction failed after " \o ToString(maxRetries)
                        \o " attempts: " \o attempts[Len(attempts)].error

\* C13 witness: attempt 1 failed in the send, attempt 2 in the confirmation
\* wait, and the failure is returned
C13_Witness ==
  /\ pc = "done" /\ ~result.success /\ Len(attempts) = 2
  /\ attempts[1].stage = "send" /\ attempts[2].stage = "confirm"
  /\ attempts[1].error # attempts[2].error

\* C14 (as claimed): the failure returned to the caller holds the whole
\* sequence of attempt records: the error of every attempt made is in it.
C14_FailureReturnsAllAttempts ==
  (pc = "done" /\ ~result.success) =>
    \A i \in 1..Len(attempts) : Includes(result.error, attempts[i].error)

RetryPath(i) ==
  /\ Failed(i)
  /\ attempts[i].delayFor = (IF i < maxRetries THEN i ELSE 0)
  /\ (i = Len(attempts) /\ i < maxRetries) =>
       pc \in {"sleep", "simulate", "send", "confirm"}
  /\ (i = Len(attempts) /\ i >= maxRetries) =>
       /\ pc = "done" /\ result.returned /\ ~result.success
       /\ Includes(result.error, attempts[i].error)

\* C22: simulateTransaction never raises: every simulation that threw or
\* reported an execution error came back as success = false with an error,
\* ended its attempt as a failed attempt before any send, and that attempt
\* takes the same retry path as an attempt whose send failed.
C22_SimulationFailureIsAResult ==
  /\ Cardinality({i \in 1..Len(attempts) : attempts[i].stage = "simulate"}) = simFailures
  /\ \A i \in 1..Len(attempts) :
       attempts[i].stage = "simulate" =>
         /\ Len(attempts[i].error) > Len("Simulation failed: ")
         /\ SubSeq(attempts[i].error, 1, Len("Simulation failed: ")) = "Simulation failed: "
         /\ CallsIn(i).sends = 0
         /\ RetryPath(i)
  /\ \A i \in 1..Len(attempts) :
       (attempts[i].stage = "send" /\ Failed(i)) => RetryPath(i)

\* C22 witness: the simulation of attempt 1 threw a transport error, the
\* send of attempt 2 failed, and attempt 3 is under way
C22_Witness ==
  /\ Len(attempts) = 2 /\ attempt = 3 /\ pc = "simulate"
  /\ attempts[1].stage = "simulate" /\ Includes(attempts[1].error, "fetch failed")
  /\ attempts[2].stage = "send" /\ Failed(2)

\* C23 (as claimed): a cancellation requested during a retry delay ends the
\* run: no simulate or send call is issued after it and what the call
\* returns is neither a success nor a failure result but a distinct
\* cancelled outcome; and whenever a cancelled run obtained a signature from
\* a send, the result returned records it.
C23_CancelEndsRun ==
  cancel.requested =>
    /\ cancel.during = "sleep" =>
         /\ simCalls = cancel.sims /\ sendCalls = cancel.sends
         /\ pc = "done" => ~(result.returned /\ (result.success \/ ~result.success))
    /\ (pc = "done" /\ confirmCalls > 0) => result.signature = Signature

\* C27: a retry delay is waited exactly once between two consecutive
\* attempts and never after the final one: every attempt that is followed by
\* another had the delay computed for its own attempt number started and
\* elapsed before the next began, the final attempt has none, and a call
\* that returned after n attempts waited exactly n - 1 delays.
C27_OneDelayBetweenAttempts ==
  /\ \A i \in 1..Len(attempts) :
       /\ i < Len(attempts) => (Failed(i) /\ attempts[i].delayFor = i)
       /\ attempts[i].delayFor \in {0, i}
       /\ (attempts[i].outcome = "succeeded" \/ i >= maxRetries) =>
            attempts[i].delayFor = 0
  /\ delaysStarted
       = Cardinality({i \in 1..Len(attempts) : attempts[i].delayFor # 0})
  /\ delaysDone <= delaysStarted /\ delaysStarted <= delaysDone + 1
  /\ delaysStarted = delaysDone + 1 <=> pc = "sleep"
  /\ pc \in {"simulate", "send", "confirm"} => delaysDone = attempt - 1
  /\ (pc = "done" /\ Len(attempts) >= 1) =>
       (delaysStarted = Len(attempts) - 1 /\ delaysDone = Len(attempts) - 1)

\* C27 witness: three attempts failed, two delays were waited, the failure
\* is returned
C27_Witness ==
  /\ pc = "done" /\ ~result.success /\ Len(attempts) = 3 /\ delaysDone = 2
  /\ attempts[1].delayFor = 1 /\ attempts[2].delayFor = 2 /\ attempts[3].delayFor = 0

\* C25 (as claimed): whatever options.maxRetries is, 0 and negative values
\* included, a call that returns failure has made at least one attempt (one
\* simulate or send call) and its error is one an attempt produced.
C25_AtLeastOneAttempt ==
  (pc = "done" /\ ~result.success) =>
    /\ Len(attempts) >= 1
    /\ simCalls + sendCalls >= 1
    /\ \E i \in 1..Len(attempts) : Includes(result.error, attempts[i].error)

(***************************************************************************)
(* The retry delay's claims.                                               *)
(***************************************************************************)
\* baseDelay * 2^(attempt - 1) of the call made
Backoff == delayCall.baseDelay * 2 ^ (delayCall.attempt - 1)

\* C15 (as claimed): the delay computed for attempt i lies between
\* base * 2^(i-1) and base * 2^(i-1) + 1 s, and is never above the cap.
C15_DelayWithinBackoffAndCap ==
  delayCall.pc = "done" =>
    /\ Backoff <= delayCall.delay
    /\ delayCall.delay <= Backoff + 1000
    /\ delayCall.delay <= maxDelay

\* C15 (amended): the delay is never above the cap and never below the
\* smaller of base * 2^(i-1) and the cap; while base * 2^(i-1) is at most the
\* cap it lies between base * 2^(i-1) and base * 2^(i-1) + 1 s, and once
\* base * 2^(i-1) reaches the cap it is the cap.
C15_DelayIsCappedBackoff ==
  delayCall.pc = "done" =>
    /\ delayCall.delay <= maxDelay
    /\ delayCall.delay >= Min(Backoff, maxDelay)
    /\ Backoff <= maxDelay =>
         (Backoff <= delayCall.delay /\ delayCall.delay <= Backoff + 1000)
    /\ Backoff + delayCall.jitter <= maxDelay =>
         delayCall.delay = Backoff + delayCall.jitter
    /\ Backoff >= maxDelay => delayCall.delay = maxDelay

\* C15 witness: base 10000 ms, attempt 3: 40000 ms of backoff, 30000 ms of delay
C15_Witness ==
  /\ delayCall.pc = "done" /\ delayCall.baseDelay = 10000 /\ delayCall.attempt = 3
  /\ delayCall.delay = maxDelay /\ Backoff > maxDelay

(***************************************************************************)
(* The classifier's claims.                                                *)
(***************************************************************************)
Categories == {"NETWORK", "RPC", "WALLET", "TRANSACTION", "SLIPPAGE", "LIQUIDITY",
               "RAYDIUM", "TOKEN", "VALIDATION", "CONFIGURATION", "UNKNOWN"}

Severities == {"LOW", "MEDIUM", "HIGH", "CRITICAL"}

Classified == classifyCall.pc = "done" /\ ~classifyCall.raised

\* C16 (as claimed): handleError never raises and returns a well-formed
\* classification for every input shape, an object that cannot be serialised
\* included.
C16_ClassificationTotal ==
  (classifyCall.pc = "done" /\ classifyCall.via = "handleError") =>
    /\ ~classifyCall.raised
    /\ classifyCall.info.category \in Categories
    /\ classifyCall.info.severity \in Severities
    /\ classifyCall.info.retryable \in BOOLEAN

\* the groups of categorizeError in the order they are tested
PriorityOrder == <<"NETWORK", "RPC", "WALLET", "TRANSACTION", "SLIPPAGE", "LIQUIDITY",
                   "RAYDIUM", "TOKEN", "VALIDATION", "CONFIGURATION">>

GroupPatterns(category) ==
  CASE category = "NETWORK" -> {"network", "timeout", "connection", "econnreset",
         "enotfound", "fetch", "429", "rate limit", "service unavailable"}
    [] category = "RPC" -> {"rpc", "node", "endpoint", "blockhash", "slot", "commitment"}
    [] category = "WALLET" -> {"insufficient funds", "balance", "account not found",
         "private key", "keypair", "signature", "unauthorized"}
    [] category = "TRANSACTION" -> {"transaction", "instruction", "simulation failed",
         "compute", "program error", "account in use", "blockhash expired"}
    [] category = "SLIPPAGE" -> {"slippage", "price", "tolerance", "minimum", "maximum",
         "amount"}
    [] category = "LIQUIDITY" -> {"liquidity", "pool", "reserves", "lp token", "swap", "amm"}
    [] category = "RAYDIUM" -> {"raydium", "pool info", "pool keys", "market", "openbook"}
    [] category = "TOKEN" -> {"token", "mint", "decimals", "spl", "associated token account"}
    [] category = "VALIDATION" -> {"invalid", "validation", "format", "required",
         "missing", "expected"}
    [] category = "CONFIGURATION" -> {"environment", "config", "api key", "url", "setting"}

\* the lowercased message holds a pattern of the k-th group
GroupMatches(k, lowerMessage) ==
  \E p \in GroupPatterns(PriorityOrder[k]) : Includes(lowerMessage, p)

\* C17: the category handleError returns is that of the first group, in the
\* order network, RPC, wallet, transaction, slippage, liquidity, raydium,
\* token, validation, configuration, that has a pattern in the lowercased
\* message, and UNKNOWN when no group has one; so 'blockhash expired' without
\* a network term is RPC, and a network term together with 'slippage' is
\* NETWORK.
C17_FirstGroupInPriorityOrder ==
  (Classified /\ classifyCall.via = "handleError") =>
    LET lowerMessage == ToLowerCase(classifyCall.info.technicalDetails)
        category == classifyCall.info.category
    IN
    /\ (\A k \in 1..Len(PriorityOrder) : ~GroupMatches(k, lowerMessage))
         => category = "UNKNOWN"
    /\ \A k \in 1..Len(PriorityOrder) :
         (GroupMatches(k, lowerMessage)
            /\ \A j \in 1..(k - 1) : ~GroupMatches(j, lowerMessage))
           => category = PriorityOrder[k]
    /\ (Includes(lowerMessage, "blockhash expired") /\ ~GroupMatches(1, lowerMessage))
         => category = "RPC"
    /\ (GroupMatches(1, lowerMessage) /\ Includes(lowerMessage, "slippage"))
         => category = "NETWORK"

\* C17 witness: 'blockhash expired' together with 'slippage', classified
C17_Witness ==
  /\ Classified /\ classifyCall.via = "handleError"
  /\ classifyCall.error.text = "blockhash expired slippage"
  /\ classifyCall.info.category = "RPC"

\* C18 (as claimed): retryable is false for CONFIGURATION and VALIDATION, and
\* for every other category it is true unless the severity is CRITICAL.
C18_RetryableUnlessCritical ==
  (Classified /\ classifyCall.via = "handleError") =>
    LET info == classifyCall.info IN
    /\ info.category \in {"CONFIGURATION", "VALIDATION"} => ~info.retryable
    /\ info.category \notin {"CONFIGURATION", "VALIDATION"} =>
         (info.retryable <=> info.severity # "CRITICAL")

\* C18 (amended): retryable is false exactly for CONFIGURATION, VALIDATION
\* and WALLET, whatever the severity; shouldRetry, with attempts left, grants
\* a retry exactly when retryable is true and the severity is not CRITICAL.
C18_RetryableByCategory ==
  (Classified /\ classifyCall.via = "handleError") =>
    LET info == classifyCall.info IN
    /\ info.retryable <=> info.category \notin {"CONFIGURATION", "VALIDATION", "WALLET"}
    /\ shouldRetry(info, 1, 2) <=> (info.retryable /\ info.severity # "CRITICAL")
    /\ ~shouldRetry(info, 2, 2)

\* C18 witness: a network error that names itself critical: retryable is
\* true, the severity CRITICAL
C18_Witness ==
  /\ Classified /\ classifyCall.via = "handleError"
  /\ classifyCall.info.category = "NETWORK"
  /\ classifyCall.info.severity = "CRITICAL"
  /\ classifyCall.info.retryable

\* C19: the raw error "slippage tolerance exceeded", thrown as a string or as
\* an Error, is classified SLIPPAGE, MEDIUM, retryable by handleError and by
\* handleCommonDefiErrors alike.
C19_SlippageExceeded ==
  (classifyCall.pc = "done" /\ classifyCall.error.shape \in {"string", "Error"}
     /\ classifyCall.error.text = "slippage tolerance exceeded") =>
    /\ ~classifyCall.raised
    /\ classifyCall.info.category = "SLIPPAGE"
    /\ classifyCall.info.severity = "MEDIUM"
    /\ classifyCall.info.retryable

\* C19 witness: the Error went through handleCommonDefiErrors
C19_Witness ==
  /\ classifyCall.pc = "done" /\ classifyCall.via = "handleCommonDefiErrors"
  /\ classifyCall.error.shape = "Error"
  /\ classifyCall.error.text = "slippage tolerance exceeded"
  /\ classifyCall.info.category = "SLIPPAGE"

(***************************************************************************)
(* The confirmation wait's claims.                                         *)
(***************************************************************************)
\* C20 (as claimed): the confirmation wait is bound to the validity window
\* the submitted transaction was built against: its expiry height is that
\* window's, so once the block height has passed that window without the
\* transaction landing the wait can end only as expired; it never returns
\* confirmed for it, and a wait that saw the landing before expiry succeeds.
C20_WaitBoundToBuiltWindow ==
  /\ wait.pc = "waiting" => wait.lastValid = wait.txLastValid
  /\ (wait.pc = "waiting" /\ wait.landed = "no" /\ wait.height > wait.txLastValid)
       => wait.height > wait.lastValid
  /\ (wait.pc = "done" /\ wait.reply = "expired") => ~wait.returned
  /\ (wait.pc = "done" /\ wait.reply = "confirmed") => wait.returned

\* C28 (as claimed): for every error input the severity of the
\* classification handleError returns is the severity determineSeverity
\* derives from the same category and message.
C28_SeverityDerivationsAgree ==
  (Classified /\ classifyCall.via = "handleError") =>
    classifyCall.info.severity
      = determineSeverity(classifyCall.info.category, classifyCall.info.technicalDetails)

(***************************************************************************)
(* The monitor loop's claims.                                              *)
(***************************************************************************)
\* C24: every update of the monitor loop ends by scheduling exactly one
\* further update: at twice the normal interval, and logged, when it failed,
\* at the normal interval when it succeeded; at most one timer is pending,
\* none while an update runs, and the loop ends only when it is interrupted,
\* never because an update failed.
C24_MonitorReschedules ==
  /\ Len(monitor.timers) <= 1
  /\ monitor.pc = "updating" =>
       (monitor.timers = <<>> /\ Len(monitor.log) = monitor.monitorCount - 1)
  /\ monitor.pc = "waiting" =>
       /\ Len(monitor.log) = monitor.monitorCount
       /\ monitor.timers = <<monitor.log[Len(monitor.log)].delay>>
  /\ \A i \in 1..Len(monitor.log) :
       /\ monitor.log[i].update = i
       /\ monitor.log[i].failed => monitor.log[i].delay = 2 * MONITOR_INTERVAL_MS
       /\ ~monitor.log[i].failed => monitor.log[i].delay = MONITOR_INTERVAL_MS
  /\ monitor.errorsLogged
       = Cardinality({i \in 1..Len(monitor.log) : monitor.log[i].failed})
  /\ monitor.pc = "exited" => monitor.exit = "SIGINT"
  /\ (monitor.pc # "exited" /\ Len(monitor.log) > 0
        /\ Len(monitor.log) = monitor.monitorCount
        /\ monitor.log[Len(monitor.log)].failed)
       => (monitor.pc = "waiting" /\ monitor.timers = <<2 * MONITOR_INTERVAL_MS>>)

\* C24 witness: update 1 failed (getPoolInfo threw), update 2 ran after it
\* and succeeded, and the next one is due at the normal interval
C24_Witness ==
  /\ monitor.pc = "waiting" /\ Len(monitor.log) = 2
  /\ monitor.log[1].failed /\ monitor.log[1].pool = "throw"
  /\ ~monitor.log[2].failed
  /\ monitor.timers = <<MONITOR_INTERVAL_MS>>

(***************************************************************************)
(* The retry helpers' claims.                                              *)
(***************************************************************************)
\* C29: for maxRetries >= 0, retry and withRetry call the operation at most
\* maxRetries + 1 times; they return the value of the first call that
\* succeeds and call nothing after it; when every call fails they throw the
\* error of the last call after exactly maxRetries + 1 calls and exactly
\* maxRetries delays.
C29_RetryHelpersBounded ==
  /\ retryCall.calls <= retryCall.maxRetries + 1
  /\ retryCall.pc \in {"sleep", "returned", "thrown"} =>
       Len(retryCall.outcomes) = retryCall.calls
  /\ \A k \in 1..Len(retryCall.outcomes) :
       retryCall.outcomes[k] = "value" =>
         (k = Len(retryCall.outcomes) /\ retryCall.pc = "returned")
  /\ retryCall.pc = "returned" =>
       /\ retryCall.outcomes[retryCall.calls] = "value"
       /\ retryCall.result = "value"
       /\ Len(retryCall.delays) = retryCall.calls - 1
  /\ retryCall.pc = "thrown" =>
       /\ retryCall.calls = retryCall.maxRetries + 1
       /\ Len(retryCall.delays) = retryCall.maxRetries
       /\ retryCall.thrown = retryCall.outcomes[retryCall.calls]
       /\ \A k \in 1..retryCall.calls : retryCall.outcomes[k] # "value"

\* C29 witness: retry with maxRetries = 2: three calls failed with different
\* errors, two delays were waited, the last error is thrown
C29_Witness ==
  /\ retryCall.helper = "retry" /\ retryCall.maxRetries = 2
  /\ retryCall.pc = "thrown" /\ retryCall.calls = 3
  /\ retryCall.outcomes = <<"fetch failed", "fetch failed", "timeout">>
  /\ retryCall.thrown = "timeout"
  /\ retryCall.delays = <<1000, 2000>>

(***************************************************************************)
(* The risk assessment's claims.                                           *)
(***************************************************************************)
\* one step up the scale LOW < MEDIUM < HIGH
OneStepUp(level) ==
  CASE level = "LOW" -> "MEDIUM"
    [] level = "MEDIUM" -> "HIGH"
    [] level = "HIGH" -> "HIGH"

\* C30: with test mode off the returned level is the level computed from
\* amount and operation raised by exactly one step; with test mode on it is
\* the computed level.
C30_RaisedByOneStep ==
  riskCall.pc = "returned" =>
    LET computed == ComputedRisk(riskCall.operation, riskCall.amount).riskLevel IN
    riskCall.riskLevel = IF riskCall.testMode THEN computed ELSE OneStepUp(computed)

(***************************************************************************)
(* The caches' claims.                                                     *)
(***************************************************************************)
Lifetime == IF revision = "sdk" THEN CACHE_TTL ELSE CACHE_DURATION_MS

Loading(c) == calls[c].pc \in {"fetchRpc", "fetchApi", "fetchDirect", "tokens"}

Started(c) == calls[c].pc # "idle"

CacheReader(c) == Started(c) /\ UsesCache(calls[c].useCache)

\* C6 (as claimed): among the calls that read through the cache at most one
\* load is in flight at any time: a caller that arrives during a load awaits
\* that load and starts none of its own.
C6_SingleFlight ==
  Cardinality({c \in Callers : CacheReader(c) /\ Loading(c)}) <= 1

\* C7 (as claimed): a read through the cache that finds an entry returns it
\* without a load exactly when now - fetchedAt <= ttl.
C7_LiveUpToTtlInclusive ==
  \A c \in Callers :
    (CacheReader(c) /\ calls[c].seenHas) =>
      ((calls[c].seenAge <= Lifetime) <=> (calls[c].load = 0))

\* C7 (amended): a read through the cache that finds an entry returns it
\* without a load exactly when now - fetchedAt < ttl (an entry exactly ttl old
\* is not live); such a read returns the stored value, and a read that finds
\* no entry or an entry of age >= ttl starts a load.
C7_LiveBelowTtl ==
  \A c \in Callers :
    CacheReader(c) =>
      /\ calls[c].seenHas =>
           ((calls[c].seenAge < Lifetime) <=> (calls[c].load = 0))
      /\ ~calls[c].seenHas => calls[c].load # 0
      /\ calls[c].load = 0 =>
           /\ calls[c].pc = "returned"
           /\ calls[c].ret = calls[c].seenValue

\* C7 witness: an entry exactly ttl old was found and a load was started
C7_Witness ==
  \E c \in Callers :
    /\ CacheReader(c) /\ calls[c].seenHas
    /\ calls[c].seenAge = Lifetime
    /\ calls[c].load # 0

\* C8: a failed load hands its error to the caller and writes nothing: the
\* entry in the cache is never the result of a failed load, its value and
\* timestamp are those a load that succeeded stored, and no read returns the
\* result of a failed load.
C8_FailedLoadLeavesCache ==
  /\ \A c \in Callers :
       calls[c].pc = "failed" =>
         /\ calls[c].error # ""
         /\ calls[c].load # 0
         /\ poolCache.has => poolCache.value # calls[c].load
         /\ \A d \in Callers : calls[d].pc = "returned" => calls[d].ret # calls[c].load
  /\ poolCache.has =>
       \E d \in Callers :
         /\ calls[d].pc = "returned"
         /\ calls[d].load = poolCache.value
         /\ calls[d].now = poolCache.timestamp
  /\ ~poolCache.has => poolCache = NoEntry

\* C8 witness: a load failed while the entry of an earlier load, by then
\* stale, was in the cache, and that entry is still there
C8_Witness ==
  \E c, d \in Callers :
    /\ calls[c].pc = "failed" /\ calls[c].seenHas
    /\ calls[d].pc = "returned" /\ calls[d].load # 0
    /\ poolCache = [has |-> TRUE, value |-> calls[d].load, timestamp |-> calls[d].now]
    /\ calls[c].seenValue = calls[d].load

C26_LastStartedFetchWins ==
  /\ [][poolCache'.timestamp >= poolCache.timestamp]_vars
  /\ []((poolCache.has /\ \A c \in Callers : ~Loading(c)) =>
          \A c \in Callers :
            (calls[c].pc = "returned" /\ calls[c].load > 0) =>
              poolCache.value >= calls[c].load)

====
